---------------------------- MODULE Spec2Model ----------------------------
(***************************************************************************)
(* A model of filter/pclmtoraster.cxx: the PCLm to raster filter.          *)
(*                                                                         *)
(* The state is the file's anonymous-namespace globals (header, ppd, the   *)
(* four swap flags, rowsize, numcolors, the two conversion function        *)
(* pointers, nplanes, nbands, bytesPerLine), the position of main() (pc,   *)
(* its page loop index pgi and the exit status) and the raster stream      *)
(* written so far.  `page' records what the last call of outPage() did and *)
(* `rot' holds the buffers of a stand-alone rotatebitmap() experiment.     *)
(***************************************************************************)
EXTENDS Integers, Sequences, FiniteSets, TLC

VARIABLES pc, status, header, ppd, bi_level,
          swap_image_x, swap_image_y, swap_margin_x, swap_margin_y,
          rowsize, numcolors, convertcspace, convertline,
          nplanes, nbands, bytesPerLine,
          npages, pgi, raster, page, rot

vars == <<pc, status, header, ppd, bi_level,
          swap_image_x, swap_image_y, swap_margin_x, swap_margin_y,
          rowsize, numcolors, convertcspace, convertline,
          nplanes, nbands, bytesPerLine,
          npages, pgi, raster, page, rot>>

swapvars == <<swap_image_x, swap_image_y, swap_margin_x, swap_margin_y>>

convvars == <<rowsize, numcolors, convertcspace, convertline>>

(***************************************************************************)
(* Bounds of the model.                                                    *)
(***************************************************************************)
MaxPages == 2

MaxDuplexPages == 4

MaxDim == 3

(***************************************************************************)
(* Small helpers.                                                          *)
(***************************************************************************)
Max(a, b) == IF a >= b THEN a ELSE b

Abs(a) == IF a < 0 THEN 0 - a ELSE a

\* A PPD attribute or a PDF key that may be missing: << >> or <<value>>.
Absent == << >>

Present(a) == a # << >>

ValueOf(a) == a[1]

\* tolower() over the attribute strings the model feeds in: what
\* strcasecmp() compares.
ToLower(s) ==
  CASE s = "ManualTumble" -> "manualtumble"
    [] s = "MANUALTUMBLE" -> "manualtumble"
    [] s = "Rotated"      -> "rotated"
    [] s = "rotated"      -> "rotated"
    [] s = "Flipped"      -> "flipped"
    [] s = "FLIPPED"      -> "flipped"
    [] s = "Normal"       -> "normal"
    [] s = "True"         -> "true"
    [] s = "TRUE"         -> "true"
    [] s = "False"        -> "false"
    [] OTHER              -> s

strcasecmp0(a, b) == ToLower(a) = ToLower(b)

(***************************************************************************)
(* parseOpts(): the duplex geometry policy.                                *)
(***************************************************************************)
\* lines 92-104: the backside string the policy looks at
BacksideIgnoringFlipDuplex(p) ==
  IF Present(p.cupsBackSide) THEN ValueOf(p.cupsBackSide) ELSE "Rotated"

Backside(p) ==
  IF Present(p.cupsBackSide) THEN ValueOf(p.cupsBackSide)
  ELSE IF p.flip_duplex THEN "Rotated"
  ELSE ""

\* lines 94-96, 106-113
FlippedMargin(p) ==
  IF Present(p.APDuplexRequiresFlippedMargin)
  THEN IF strcasecmp0(ValueOf(p.APDuplexRequiresFlippedMargin), "true")
       THEN "FM_TRUE" ELSE "FM_FALSE"
  ELSE "FM_NO"

NoSwap == [image_x |-> FALSE, image_y |-> FALSE,
           margin_x |-> FALSE, margin_y |-> FALSE]

\* a slip the policy could have: the flipped-margin attribute is looked at
\* in the Flipped branch only
SwapFlagsNoMarginFix(backside, Tumble, flippedMargin) ==
  IF strcasecmp0(backside, "ManualTumble") /\ Tumble
  THEN [image_x |-> TRUE, image_y |-> TRUE, margin_x |-> TRUE, margin_y |-> TRUE]
  ELSE IF strcasecmp0(backside, "Rotated") /\ ~Tumble
  THEN [image_x |-> TRUE, image_y |-> TRUE, margin_x |-> TRUE, margin_y |-> TRUE]
  ELSE IF strcasecmp0(backside, "Flipped")
  THEN LET f == IF Tumble
                THEN [image_x |-> TRUE, image_y |-> FALSE,
                      margin_x |-> TRUE, margin_y |-> TRUE]
                ELSE [image_x |-> FALSE, image_y |-> TRUE,
                      margin_x |-> FALSE, margin_y |-> FALSE]
       IN IF flippedMargin = "FM_FALSE"
          THEN [f EXCEPT !.margin_y = ~f.margin_y] ELSE f
  ELSE NoSwap

\* lines 114-136, from the flags' initial values (lines 52-56)
SwapFlags(backside, Tumble, flippedMargin) ==
  IF strcasecmp0(backside, "ManualTumble") /\ Tumble
  THEN [image_x |-> TRUE, image_y |-> TRUE, margin_x |-> TRUE,
        margin_y |-> (flippedMargin # "FM_TRUE")]
  ELSE IF strcasecmp0(backside, "Rotated") /\ ~Tumble
  THEN [image_x |-> TRUE, image_y |-> TRUE, margin_x |-> TRUE,
        margin_y |-> (flippedMargin # "FM_TRUE")]
  ELSE IF strcasecmp0(backside, "Flipped")
  THEN LET f == IF Tumble
                THEN [image_x |-> TRUE, image_y |-> FALSE,
                      margin_x |-> TRUE, margin_y |-> TRUE]
                ELSE [image_x |-> FALSE, image_y |-> TRUE,
                      margin_x |-> FALSE, margin_y |-> FALSE]
       IN IF flippedMargin = "FM_FALSE"
          THEN [f EXCEPT !.margin_y = ~f.margin_y] ELSE f
  ELSE NoSwap

\* the swap state parseOpts() leaves behind for a profile and a header
ComputedSwap(p, h) ==
  IF p.present /\ h.Duplex
  THEN SwapFlags(Backside(p), h.Tumble, FlippedMargin(p))
  ELSE NoSwap

\* the option string's print-color-mode (lines 167-169)
BiLevel(mode) == IF mode = "bi-level" THEN 1 ELSE 0

parseOpts ==
  /\ pc = "parseOpts"
  /\ LET s == ComputedSwap(ppd, header)
     IN /\ swap_image_x' = s.image_x
        /\ swap_image_y' = s.image_y
        /\ swap_margin_x' = s.margin_x
        /\ swap_margin_y' = s.margin_y
  /\ ppd' = IF ppd.present /\ header.Duplex /\ Present(ppd.cupsBackSide)
            THEN [ppd EXCEPT !.flip_duplex = FALSE]
            ELSE ppd
  /\ bi_level' = BiLevel(ppd.print_color_mode)
  /\ pc' = "main"
  /\ UNCHANGED <<status, header, convvars, nplanes, nbands, bytesPerLine,
                 npages, pgi, raster, page, rot>>


(***************************************************************************)
(* Pixel buffers: sequences of bytes, element n+1 holding the byte at      *)
(* offset n.                                                               *)
(***************************************************************************)
\* bytes per pixel of a page colorspace (lines 464-472)
BytesPerPixel(colorspace) ==
  CASE colorspace = "/DeviceGray" -> 1
    [] colorspace = "/DeviceCMYK" -> 4
    [] colorspace = "/DeviceRGB"  -> 3
    [] OTHER                      -> 0

\* what a read of an address outside the buffer may return
Garbage == {0, 255}

\* *(buf + off): outside the buffer the read is undefined, g stands for
\* the byte it happens to return
ReadByte(buf, off, g) ==
  IF off >= 0 /\ off < Len(buf) THEN buf[off + 1] ELSE g

(***************************************************************************)
(* rotatebitmap().  dst pixel k (row h = k \div width, column k % width,   *)
(* as dp advances) is copied from the offset bp has reached.               *)
(***************************************************************************)
\* 270 degrees without the "- bpp" of lines 236, 243, 255
SrcOffsetSlip(rotate, k, height, width, rsize, bpp) ==
  LET h == k \div width
      w == k % width
  IN CASE rotate = 180 -> height * rsize - bpp - k * bpp
       [] rotate = 270 -> (height - h) * bpp + w * height * bpp
       [] rotate = 90  -> (width - 1) * height * bpp + bpp * h - w * height * bpp

\* lines 201-204, 209-212, 220-223 (180); 236-237, 243-244, 255-256 (270);
\* 267-268, 274-275, 284-285 (90)
SrcOffset(rotate, k, height, width, rsize, bpp) ==
  LET h == k \div width
      w == k % width
  IN CASE rotate = 180 -> height * rsize - bpp - k * bpp
       [] rotate = 270 -> (height - h) * bpp - bpp + w * height * bpp
       [] rotate = 90  -> (width - 1) * height * bpp + bpp * h - w * height * bpp

SupportedRotation(rotate) == rotate \in {0, 90, 180, 270}

\* the source offsets the loops of rotatebitmap() read
ReadOffsets(rotate, height, width, rsize, colorspace) ==
  LET bpp == BytesPerPixel(colorspace)
  IN IF rotate \in {90, 180, 270} /\ bpp > 0
     THEN { SrcOffset(rotate, k, height, width, rsize, bpp) + j :
              k \in 0..(width * height - 1), j \in 0..(bpp - 1) }
     ELSE {}

\* the buffer rotatebitmap() returns: src itself for 0, else dst, a fresh
\* malloc(Len(src)) block (bytes never written keep their garbage g).
rotatebitmap(src, rotate, height, width, rsize, colorspace, g) ==
  LET bpp == BytesPerPixel(colorspace)
  IN IF rotate = 0 THEN src
     ELSE IF bpp = 0 THEN [n \in 1..Len(src) |-> g]
     ELSE [n \in 1..Len(src) |->
             LET k == (n - 1) \div bpp
                 j == (n - 1) % bpp
             IN IF k < width * height
                THEN ReadByte(src, SrcOffset(rotate, k, height, width, rsize, bpp) + j, g)
                ELSE g]

\* some read of rotatebitmap() falls outside src
ReadsOutside(src, rotate, height, width, rsize, colorspace) ==
  \E off \in ReadOffsets(rotate, height, width, rsize, colorspace) :
     off < 0 \/ off >= Len(src)

\* some write of rotatebitmap() falls outside dst
WritesOutside(src, rotate, height, width, colorspace) ==
  /\ rotate \in {90, 180, 270}
  /\ width * height * BytesPerPixel(colorspace) > Len(src)

(***************************************************************************)
(* A stand-alone rotatebitmap() experiment: a width x height buffer x is   *)
(* rotated by `first' into y, and y by `second' into z.  Each call gets    *)
(* the dimensions the way outPage() passes them: those of its output (the  *)
(* input's, exchanged for 90 and 270), and rowsize = width * bpp.          *)
(***************************************************************************)
Colorspaces == {"/DeviceGray", "/DeviceRGB", "/DeviceCMYK"}

Patterns == {[base |-> 0, step |-> 1], [base |-> 250, step |-> 3]}

Fill(len, pat) == [n \in 1..len |-> (pat.base + (n - 1) * pat.step) % 256]

Exchanged(rotate) == rotate \in {90, 270}

NoRot == [stage |-> 0]

RotInputs ==
  { [stage |-> 1, width |-> w, height |-> h, colorspace |-> cs,
     x |-> Fill(w * h * BytesPerPixel(cs), pat)] :
    w \in 1..MaxDim, h \in 1..MaxDim, cs \in Colorspaces, pat \in Patterns }

\* one call on a buffer of inW x inH pixels
RotateCall(buf, rotate, inW, inH, colorspace) ==
  LET outW == IF Exchanged(rotate) THEN inH ELSE inW
      outH == IF Exchanged(rotate) THEN inW ELSE inH
  IN rotatebitmap(buf, rotate, outH, outW, outW * BytesPerPixel(colorspace),
                  colorspace, 0)

RotateFirst ==
  /\ pc = "rotate"
  /\ rot.stage = 1
  /\ \E a \in {0, 90, 180, 270} :
       rot' = [stage |-> 2, width |-> rot.width, height |-> rot.height,
               colorspace |-> rot.colorspace, x |-> rot.x, first |-> a,
               y |-> RotateCall(rot.x, a, rot.width, rot.height, rot.colorspace)]
  /\ UNCHANGED <<pc, status, header, ppd, bi_level, swapvars, convvars,
                 nplanes, nbands, bytesPerLine, npages, pgi, raster, page>>

RotateSecond ==
  /\ pc = "rotate"
  /\ rot.stage = 2
  /\ \E a \in {0, 90, 180, 270} :
       LET midW == IF Exchanged(rot.first) THEN rot.height ELSE rot.width
           midH == IF Exchanged(rot.first) THEN rot.width ELSE rot.height
       IN rot' = [stage |-> 3, width |-> rot.width, height |-> rot.height,
                  colorspace |-> rot.colorspace, x |-> rot.x,
                  first |-> rot.first, y |-> rot.y, second |-> a,
                  z |-> RotateCall(rot.y, a, midW, midH, rot.colorspace)]
  /\ UNCHANGED <<pc, status, header, ppd, bi_level, swapvars, convvars,
                 nplanes, nbands, bytesPerLine, npages, pgi, raster, page>>

(***************************************************************************)
(* The job-wide raster header as the profile loader leaves it (line 89:    *)
(* ppdRasterInterpretPPD, or line 161: cupsRasterParseIPPOptions).         *)
(***************************************************************************)
NumColorsOf(cspace) ==
  CASE cspace \in {"K", "W", "SW"}             -> 1
    [] cspace \in {"RGB", "SRGB", "ADOBERGB"} -> 3
    [] cspace = "CMY"                          -> 3
    [] cspace = "CMYK"                         -> 4

DeviceHeader(duplex, tumble, cspace, bpc, order) ==
  [Duplex |-> duplex, Tumble |-> tumble, cupsColorSpace |-> cspace,
   cupsBitsPerColor |-> bpc, cupsColorOrder |-> order,
   cupsNumColors |-> NumColorsOf(cspace),
   cupsBitsPerPixel |-> IF order = "CHUNKED" THEN bpc * NumColorsOf(cspace) ELSE bpc,
   cupsWidth |-> 0, cupsHeight |-> 0, cupsBytesPerLine |-> 0,
   PageSize |-> <<612, 792>>]

Profile(present, backside, flip, margin, mode) ==
  [present |-> present, cupsBackSide |-> backside, flip_duplex |-> flip,
   APDuplexRequiresFlippedMargin |-> margin, print_color_mode |-> mode]

(***************************************************************************)
(* main(): lines 760-784, the page loop of lines 786-793 and the end.      *)
(***************************************************************************)
\* lines 769-773
NPlanes(h) == IF h.cupsColorOrder = "PLANAR" THEN h.cupsNumColors ELSE 1

\* lines 774-778
NBands(h) == IF h.cupsColorOrder = "BANDED" THEN h.cupsNumColors ELSE 1

\* the raster stream: the number of page headers written so far, the last
\* of them and the scanline writes that followed it
NoRaster == [pages |-> 0, hdr |-> << >>, lines |-> << >>]

mainSetup ==
  /\ pc = "main"
  /\ IF header.cupsBitsPerColor \notin {1, 2, 4, 8, 16}
     THEN /\ pc' = "exit"
          /\ status' = "exit1"
          /\ UNCHANGED <<nplanes, nbands>>
     ELSE /\ nplanes' = NPlanes(header)
          /\ nbands' = NBands(header)
          /\ pc' = "pages"
          /\ UNCHANGED status
  /\ UNCHANGED <<header, ppd, bi_level, swapvars, convvars, bytesPerLine,
                 npages, pgi, raster, page, rot>>

mainFinish ==
  /\ pc = "pages"
  /\ pgi >= npages
  /\ pc' = "done"
  /\ status' = "exit0"
  /\ UNCHANGED <<header, ppd, bi_level, swapvars, convvars, nplanes, nbands,
                 bytesPerLine, npages, pgi, raster, page, rot>>

(***************************************************************************)
(* selectConvertFunc()                                                     *)
(***************************************************************************)
\* lines 480-507: the switch, over the function line 478 left in place
Dispatch(default, cspace, colorspace) ==
  CASE cspace = "K" ->
         IF colorspace = "/DeviceRGB" THEN "RGBtoBlackLine"
         ELSE IF colorspace = "/DeviceCMYK" THEN "CMYKtoBlackLine"
         ELSE IF colorspace = "/DeviceGray" THEN "GraytoBlackLine"
         ELSE default
    [] cspace \in {"W", "SW"} ->
         IF colorspace = "/DeviceRGB" THEN "RGBtoWhiteLine"
         ELSE IF colorspace = "/DeviceCMYK" THEN "CMYKtoWhiteLine"
         ELSE default
    [] cspace = "CMY" ->
         IF colorspace = "/DeviceRGB" THEN "RGBtoCMYLine"
         ELSE IF colorspace = "/DeviceCMYK" THEN "CMYKtoCMYLine"
         ELSE IF colorspace = "/DeviceGray" THEN "GraytoCMYLine"
         ELSE default
    [] cspace = "CMYK" ->
         IF colorspace = "/DeviceRGB" THEN "RGBtoCMYKLine"
         ELSE IF colorspace = "/DeviceGray" THEN "GraytoCMYKLine"
         ELSE default
    [] OTHER ->
         IF colorspace = "/DeviceCMYK" THEN "CMYKtoRGBLine"
         ELSE IF colorspace = "/DeviceGray" THEN "GraytoRGBLine"
         ELSE default

\* the switch with the reset of line 478 made for the first page alone:
\* later pages start from the pointer the last page left
ConvertCSpaceKeepingLast(prev, cspace, colorspace) ==
  Dispatch(IF prev = "NULL" THEN "convertcspaceNoop" ELSE prev, cspace, colorspace)

\* lines 478-507: prev is the global's value on entry, overwritten by the
\* default before the switch
ConvertCSpaceFor(prev, cspace, colorspace) ==
  Dispatch("convertcspaceNoop", cspace, colorspace)

\* lines 509-514
ConvertLineFor(duplex, pgno, swap_x) ==
  IF duplex /\ pgno % 2 = 1 /\ swap_x THEN "convertReverseLine" ELSE "convertLine"

\* lines 464-476: the colorspaces selectConvertFunc() accepts
SupportedColorspace(colorspace) == colorspace \in Colorspaces

(***************************************************************************)
(* Rows on their way to the stream.  A byte of a row is a record that      *)
(* tells where it comes from: [op, v, x, row, arg] is the result of `op'   *)
(* (with parameter v, at column x of row `row') on the bytes arg.  The     *)
(* leaves are the bytes of the page buffer.                                *)
(***************************************************************************)
Sample(op, v, x, row, arg) ==
  [op |-> op, v |-> v, x |-> x, row |-> row, arg |-> arg]

\* a byte of the page buffer
SourceByte(b) == Sample("byte", b, 0, 0, << >>)

\* what a read past the end of the page buffer returns
OutsideByte(g) == Sample("outside", g, 0, 0, << >>)

Samples(buf) == [n \in 1..Len(buf) |-> SourceByte(buf[n])]

Min(a, b) == IF a <= b THEN a ELSE b

\* n bytes read at buf + off
ReadRange(buf, off, n, g) ==
  LET size == Len(buf)
  IN [k \in 1..n |-> IF off + k <= size THEN buf[off + k] ELSE OutsideByte(g)]

\* data written at buf + off
WriteRange(buf, off, data) ==
  LET n == Len(data)
  IN IF n = 0 THEN buf
     ELSE [k \in 1..Len(buf) |->
             IF k > off /\ k <= off + n THEN data[k - off] ELSE buf[k]]

\* cells of `bits' bits each, packed into bytes first cell first
PackCells(cells, bits) ==
  IF bits = 8 THEN cells
  ELSE IF bits = 16
  THEN [k \in 1..(2 * Len(cells)) |->
          Sample("half", (k - 1) % 2, 0, 0, <<cells[(k - 1) \div 2 + 1]>>)]
  ELSE LET per == 8 \div bits
       IN [k \in 1..((Len(cells) + per - 1) \div per) |->
             Sample("packed", bits, 0, 0,
                    SubSeq(cells, (k - 1) * per + 1, Min(k * per, Len(cells))))]

\* cupsImage<A>To<B>(in, out, count) of cupsfilters/image.h: pixel k of out
\* is the conversion `name' of pixel k of in (nin bytes to nout bytes)
cupsImageConvert(name, in, count, nin, nout) ==
  [n \in 1..(count * nout) |->
     LET k == (n - 1) \div nout
     IN Sample(name, (n - 1) % nout, 0, 0,
               SubSeq(in, k * nin + 1, k * nin + nin))]

\* oneBitLine(src, dst, width, row, bi_level) of cupsfilters/bitmap.h: one
\* bit per pixel, thresholded or dithered at its column and row, packed
\* from the high bit down
oneBitLine(src, width, row, bl) ==
  PackCells([i \in 1..width |-> Sample("oneBitLine", bl, i - 1, row, <<src[i]>>)], 1)

\* bit i (counted from the high bit of the first byte) of a row of bytes
BitAt(src, i) ==
  LET byte == src[i \div 8 + 1]
      j    == i % 8
  IN IF byte.op = "packed" /\ byte.v = 1 /\ j < Len(byte.arg)
     THEN byte.arg[j + 1]
     ELSE Sample("bit", j, 0, 0, <<byte>>)

\* reverseOneBitLine(src, dst, pixels, size) of cupsfilters/bitmap.h: the
\* first `pixels' bits of src in reverse order
reverseOneBitLine(src, pixels, size) ==
  PackCells([i \in 1..pixels |-> BitAt(src, pixels - i)], 1)

\* convertbits(src, dst, x, y, cupsNumColors, bits) of cupsfilters/bitmap.h
convertbits(pb, x, row, ncolors, bits) ==
  [c \in 1..ncolors |-> Sample("convertbits", bits, x, row, <<pb[c]>>)]

\* the cupsImage function a line function calls when it makes one call of
\* one, and the bytes per pixel it reads and writes
LibraryCall(fn) ==
  CASE fn = "RGBtoCMYKLine"   -> [name |-> "cupsImageRGBToCMYK", nin |-> 3, nout |-> 4]
    [] fn = "RGBtoCMYLine"    -> [name |-> "cupsImageRGBToCMY", nin |-> 3, nout |-> 3]
    [] fn = "RGBtoWhiteLine"  -> [name |-> "cupsImageRGBToWhite", nin |-> 3, nout |-> 1]
    [] fn = "RGBtoBlackLine"  -> [name |-> "cupsImageRGBToBlack", nin |-> 3, nout |-> 1]
    [] fn = "CMYKtoRGBLine"   -> [name |-> "cupsImageCMYKToRGB", nin |-> 4, nout |-> 3]
    [] fn = "CMYKtoWhiteLine" -> [name |-> "cupsImageCMYKToWhite", nin |-> 4, nout |-> 1]
    [] fn = "CMYKtoBlackLine" -> [name |-> "cupsImageCMYKToBlack", nin |-> 4, nout |-> 1]
    [] fn = "GraytoRGBLine"   -> [name |-> "cupsImageWhiteToRGB", nin |-> 1, nout |-> 3]
    [] fn = "GraytoCMYKLine"  -> [name |-> "cupsImageWhiteToCMYK", nin |-> 1, nout |-> 4]
    [] fn = "GraytoCMYLine"   -> [name |-> "cupsImageWhiteToCMY", nin |-> 1, nout |-> 3]
    [] fn = "GraytoBlackLine" -> [name |-> "cupsImageWhiteToBlack", nin |-> 1, nout |-> 1]

InkLines ==
  {"RGBtoWhiteLine", "RGBtoBlackLine", "CMYKtoWhiteLine", "CMYKtoBlackLine",
   "GraytoBlackLine"}

\* lines 301-404: a call fn(src, dst, row, pixels) of the function
\* convertcspace points to, src = buf + off.  src is what the call wrote
\* at src, dst what it wrote at dst, and ret the buffer the returned
\* pointer is the start of: "src" or "dst".
CallConvertCSpace(fn, buf, off, row, pixels, h, bl, g) ==
  IF fn = "convertcspaceNoop"
  THEN [src |-> << >>, dst |-> << >>, ret |-> "src"]
  ELSE IF fn = "CMYKtoCMYLine"
  THEN LET rgb == cupsImageConvert("cupsImageCMYKToRGB",
                                   ReadRange(buf, off, 4 * pixels, g), pixels, 4, 3)
       IN [src |-> rgb,
           dst |-> cupsImageConvert("cupsImageRGBToCMY", rgb, pixels, 3, 3),
           ret |-> "dst"]
  ELSE LET lib == LibraryCall(fn)
           out == cupsImageConvert(lib.name, ReadRange(buf, off, lib.nin * pixels, g),
                                   pixels, lib.nin, lib.nout)
       IN IF fn \in InkLines /\ h.cupsBitsPerColor = 1
          THEN [src |-> out,
                dst |-> oneBitLine([i \in 1..h.cupsWidth |->
                                      IF i <= Len(out) THEN out[i]
                                      ELSE ReadRange(buf, off, h.cupsWidth, g)[i]],
                                   h.cupsWidth, row, bl),
                ret |-> "dst"]
          ELSE [src |-> << >>, dst |-> out, ret |-> "dst"]

\* a byte of the new[] line buffers (lines 682-683) nothing has written
Unwritten == Sample("unwritten", 0, 0, 0, << >>)

\* the first `size' bytes of a line buffer that holds data at its start
LineOf(data, size) ==
  LET n == Len(data)
  IN [k \in 1..size |-> IF k <= n THEN data[k] ELSE Unwritten]

\* the line functions that write into their source (lines 318, 330, 345,
\* 355, 366, 395)
WritesSource(fn, h) ==
  fn = "CMYKtoCMYLine" \/ (fn \in InkLines /\ h.cupsBitsPerColor = 1)

\* lines 413-416: convertcspace alone makes the row
FastPath(h) ==
  \/ h.cupsBitsPerColor = 1 /\ h.cupsNumColors = 1
  \/ h.cupsBitsPerColor = 8 /\ h.cupsColorOrder = "CHUNKED"

\* lines 423 and 453: convertcspace(src + at * numcolors, pixelBuf1, row, 1)
PixelCall(c, buf, off, row, at) ==
  CallConvertCSpace(c.convertcspace, buf, off + at * c.numcolors, row, 1,
                    c.header, c.bi_level, c.g)

\* lines 423-424 and 453-454: the channel values of the output pixel at
\* column x, made from the source pixel at column `at'
PixelCells(c, buf, off, row, x, at) ==
  LET r  == PixelCall(c, buf, off, row, at)
      pb == IF r.ret = "src"
            THEN ReadRange(buf, off + at * c.numcolors, c.header.cupsNumColors, c.g)
            ELSE r.dst
  IN convertbits(pb, x, row, c.header.cupsNumColors, c.header.cupsBitsPerColor)

\* the page buffer after the per-pixel calls of the general path, each of
\* which writes into the pixel it reads
AfterPixelCalls(c, buf, off, row) ==
  IF ~WritesSource(c.convertcspace, c.header) THEN buf
  ELSE [k \in 1..Len(buf) |->
          IF k > off /\ k <= off + c.pixels * c.numcolors
          THEN LET at == (k - 1 - off) \div c.numcolors
                   j  == (k - 1 - off) % c.numcolors
                   w  == PixelCall(c, buf, off, row, at).src
               IN IF j < Len(w) THEN w[j + 1] ELSE buf[k]
          ELSE buf[k]]

\* lines 419-426 and 449-456: the loop of the general path; writepixel()
\* of cupsfilters/bitmap.h puts all channels of pixel x at x in chunked
\* order and channel `plane' of it at x in banded and planar order
GeneralPath(c, buf, off, row, plane, mirrored) ==
  LET nc    == c.header.cupsNumColors
      at(x) == IF mirrored THEN c.pixels - x - 1 ELSE x
      cells == IF c.header.cupsColorOrder = "CHUNKED"
               THEN [n \in 1..(c.pixels * nc) |->
                       LET x == (n - 1) \div nc
                       IN PixelCells(c, buf, off, row, x, at(x))[((n - 1) % nc) + 1]]
               ELSE [n \in 1..c.pixels |->
                       PixelCells(c, buf, off, row, n - 1, at(n - 1))[plane + 1]]
  IN [buf |-> AfterPixelCalls(c, buf, off, row),
      out |-> LineOf(PackCells(cells, c.header.cupsBitsPerColor), c.bytesPerLine)]

\* the bytesPerLine bytes at the pointer a whole-row call returned
Returned(c, r, buf, off) ==
  IF r.ret = "src" THEN ReadRange(buf, off, c.bytesPerLine, c.g)
  ELSE LineOf(r.dst, c.bytesPerLine)

\* convertLine(), lines 406-429, called on src = buf + off: the page buffer
\* after the call and the bytesPerLine bytes at the returned pointer
convertLine(c, buf, off, row, plane) ==
  IF FastPath(c.header)
  THEN LET r == CallConvertCSpace(c.convertcspace, buf, off, row, c.pixels,
                                  c.header, c.bi_level, c.g)
       IN [buf |-> WriteRange(buf, off, r.src), out |-> Returned(c, r, buf, off)]
  ELSE GeneralPath(c, buf, off, row, plane, FALSE)

\* convertReverseLine(), lines 431-459
convertReverseLine(c, buf, off, row, plane) ==
  LET h == c.header
      r == CallConvertCSpace(c.convertcspace, buf, off, row, c.pixels,
                             h, c.bi_level, c.g)
  IN IF h.cupsBitsPerColor = 1 /\ h.cupsNumColors = 1
     THEN [buf |-> WriteRange(buf, off, r.src),
           out |-> LineOf(reverseOneBitLine(Returned(c, r, buf, off), c.pixels,
                                            c.bytesPerLine), c.bytesPerLine)]
     ELSE IF h.cupsBitsPerColor = 8 /\ h.cupsColorOrder = "CHUNKED"
     THEN LET nc   == h.cupsNumColors
              conv == IF r.ret = "src"
                      THEN ReadRange(buf, off, h.cupsWidth * nc, c.g)
                      ELSE LineOf(r.dst, h.cupsWidth * nc)
          IN [buf |-> WriteRange(buf, off, r.src),
              out |-> LineOf([n \in 1..(c.pixels * nc) |->
                                conv[(h.cupsWidth - 1 - (n - 1) \div nc) * nc
                                     + ((n - 1) % nc) + 1]],
                             c.bytesPerLine)]
     ELSE GeneralPath(c, buf, off, row, plane, TRUE)

\* lines 689-690 and 700-701: one call through convertline
CallConvertLine(c, buf, line) ==
  IF c.convertline = "convertReverseLine"
  THEN convertReverseLine(c, buf, line.row * c.rowsize, line.row, line.chan)
  ELSE convertLine(c, buf, line.row * c.rowsize, line.row, line.chan)

\* lines 684-706: the rows written, one per call, the page buffer being
\* handed from call to call
RECURSIVE EmitRows(_, _, _, _)
EmitRows(c, buf, lines, n) ==
  IF n > Len(lines) THEN << >>
  ELSE LET r == CallConvertLine(c, buf, lines[n])
       IN <<r.out>> \o EmitRows(c, r.buf, lines, n + 1)

\* the bytes of a row the calls of one scanline reach, from the row's start
RowReach(c) ==
  IF c.convertcspace = "convertcspaceNoop" /\ FastPath(c.header)
  THEN c.bytesPerLine ELSE c.rowsize

\* some row of the page does not lie inside the page buffer
RowsOutside(c, buf, height) ==
  height > 0 /\ (height - 1) * c.rowsize + RowReach(c) > Len(buf)

(***************************************************************************)
(* outPage()                                                               *)
(*                                                                         *)
(* A page of the document is [MediaBox, Rotate, ColorSpace, images, pat]:  *)
(* MediaBox is Absent or <<the array>>, Rotate is Absent or <<degrees>>,   *)
(* ColorSpace is the /ColorSpace name of the page's image strips (Absent   *)
(* when it is no name), images the strips' [Width, Height] in extraction   *)
(* order and pat the bytes of their data.                                  *)
(***************************************************************************)
\* mediaboxlookup(), lines 175-188: "false", "true", or "undefined" when
\* the loop of lines 183-185 indexes past the end of the array
mediaboxlookup(p) ==
  IF ~Present(p.MediaBox) THEN "false"
  ELSE IF Len(ValueOf(p.MediaBox)) < 4 THEN "undefined"
  ELSE IF Len(ValueOf(p.MediaBox)) = 4 THEN "true"
  ELSE "false"

\* lines 546-557
PageSizeOf(mediaBox, rotate) ==
  LET lx == Abs(mediaBox[3] - mediaBox[1])
      ly == Abs(mediaBox[4] - mediaBox[2])
  IN IF rotate = 90 \/ rotate = 270 THEN <<ly, lx>> ELSE <<lx, ly>>

RECURSIVE SumHeights(_)
SumHeights(images) ==
  IF images = << >> THEN 0
  ELSE SumHeights(Tail(images)) + Head(images).Height

\* line 639 without the comparison: the width of the last strip
LastWidth(images) ==
  IF images = << >> THEN 0 ELSE images[Len(images)].Width

RECURSIVE MaxWidth(_)
MaxWidth(images) ==
  IF images = << >> THEN 0
  ELSE Max(Head(images).Width, MaxWidth(Tail(images)))

\* line 659
PageColorspace(p) ==
  IF Present(p.ColorSpace) THEN ValueOf(p.ColorSpace) ELSE "/DeviceRGB"

\* bytes of one strip's stream data (line 628)
StripSize(img, p) ==
  img.Width * img.Height *
    (IF SupportedColorspace(PageColorspace(p))
     THEN BytesPerPixel(PageColorspace(p)) ELSE 3)

RECURSIVE PixelCount(_, _)
PixelCount(images, p) ==
  IF images = << >> THEN 0
  ELSE StripSize(Head(images), p) + PixelCount(Tail(images), p)

\* lines 618-640: the strips' data, one after the other
Bitmap(p) == Fill(PixelCount(p.images, p), p.pat)

\* lines 642-647: cupsWidth and cupsHeight after the landscape exchange
PageWidth(p, rotate) ==
  IF rotate = 270 \/ rotate = 90 THEN SumHeights(p.images) ELSE MaxWidth(p.images)

PageHeight(p, rotate) ==
  IF rotate = 270 \/ rotate = 90 THEN MaxWidth(p.images) ELSE SumHeights(p.images)

\* line 649 without the rounding up
LineBytesTruncating(h, width) == (h.cupsBitsPerPixel * width) \div 8

\* line 649: bytesPerLine (the products of the model stay far below the
\* 2^32 at which the unsigned int arithmetic wraps)
LineBytes(h, width) == (h.cupsBitsPerPixel * width + 7) \div 8

\* lines 649-652: header.cupsBytesPerLine
HeaderLineBytes(h, width) ==
  IF h.cupsColorOrder = "BANDED"
  THEN LineBytes(h, width) * h.cupsNumColors
  ELSE LineBytes(h, width)

\* lines 662-663: the duplex fold-in
FoldIn(duplex, pgno, sx, sy) == duplex /\ pgno % 2 = 1 /\ sy /\ sx

\* the row loops that stop one row early
ScanLinesShort(reverse, planes, bands, height, len) ==
  [n \in 1..(planes * (IF height > 0 THEN height - 1 ELSE 0) * bands) |->
     LET hh    == height - 1
         plane == (n - 1) \div (hh * bands)
         r     == ((n - 1) \div bands) % hh
         band  == (n - 1) % bands
     IN [len |-> len, row |-> IF reverse THEN height - 1 - r ELSE r,
         plane |-> plane, band |-> band, chan |-> plane + band]]

\* the row loops with the forward branch (lines 696-705) taken always
ScanLinesForward(reverse, planes, bands, height, len) ==
  [n \in 1..(planes * height * bands) |->
     LET plane == (n - 1) \div (height * bands)
         r     == ((n - 1) \div bands) % height
         band  == (n - 1) % bands
     IN [len |-> len, row |-> r,
         plane |-> plane, band |-> band, chan |-> plane + band]]

\* lines 684-706: the cupsRasterWritePixels() calls of a page, in order:
\* their length and the row and channel handed to convertline
ScanLines(reverse, planes, bands, height, len) ==
  [n \in 1..(planes * height * bands) |->
     LET plane == (n - 1) \div (height * bands)
         r     == ((n - 1) \div bands) % height
         band  == (n - 1) % bands
     IN [len |-> len, row |-> IF reverse THEN height - 1 - r ELSE r,
         plane |-> plane, band |-> band, chan |-> plane + band]]

NoPage ==
  [pgno |-> -1, input |-> << >>, outcome |-> "none", reason |-> "",
   fold |-> FALSE, rotate |-> 0, colorspace |-> "", bitmap |-> << >>,
   colordata |-> << >>, outside |-> FALSE, reverse |-> FALSE,
   emitted |-> << >>]

\* what the call leaves in `page'; emitted[n] is the bytes of the n-th
\* scanline write of the page
Called(p, outcome, reason, fold, rotate, bitmap, colordata, outside, reverse, emitted) ==
  [pgno |-> pgi, input |-> p, outcome |-> outcome, reason |-> reason,
   fold |-> fold, rotate |-> rotate, colorspace |-> PageColorspace(p),
   bitmap |-> bitmap, colordata |-> colordata, outside |-> outside,
   reverse |-> reverse, emitted |-> emitted]

\* lines 536-543 with a MediaBox that does not resolve: the early return, or
\* (an array shorter than 4) whatever indexing past its end does
outPageNoBox(p, crash) ==
  /\ mediaboxlookup(p) # "true"
  /\ crash => mediaboxlookup(p) = "undefined"
  /\ IF crash
     THEN /\ pc' = "exit"
          /\ status' = "crash"
          /\ pgi' = pgi
          /\ page' = Called(p, "crash", "mediabox", FALSE, 0, << >>, << >>, TRUE, FALSE,
                            << >>)
     ELSE /\ pgi' = pgi + 1
          /\ page' = Called(p, "skipped", "mediabox", FALSE, 0, << >>, << >>,
                            mediaboxlookup(p) = "undefined", FALSE, << >>)
          /\ UNCHANGED <<pc, status>>
  /\ UNCHANGED <<header, ppd, bi_level, swapvars, convvars, nplanes, nbands,
                 bytesPerLine, npages, raster, rot>>

\* lines 544-710.  The values of the call are bound one after the other, in
\* the order the code computes them.
outPageBox(p, g, crash) ==
  /\ mediaboxlookup(p) = "true"
  /\ LET pgno       == pgi
         rotate0    == IF Present(p.Rotate) THEN ValueOf(p.Rotate) ELSE 0
         colorspace == PageColorspace(p)
         fold       == FoldIn(header.Duplex, pgno, swap_image_x, swap_image_y)
         rotate     == IF fold THEN (rotate0 + 180) % 360 ELSE rotate0
         sx         == IF fold THEN FALSE ELSE swap_image_x
         sy         == IF fold THEN FALSE ELSE swap_image_y
         badrot     == rotate # 0 /\ ~SupportedRotation(rotate)
         reverse    == header.Duplex /\ pgno % 2 = 1 /\ sy
     IN \E width \in {PageWidth(p, rotate0)}, height \in {PageHeight(p, rotate0)} :
        \E hdr \in {[header EXCEPT
                       !.PageSize = PageSizeOf(ValueOf(p.MediaBox), rotate0),
                       !.cupsWidth = width, !.cupsHeight = height,
                       !.cupsBytesPerLine = HeaderLineBytes(header, width)]} :
        \* the globals as the row loops find them
        \E c \in {[convertcspace |-> ConvertCSpaceFor(convertcspace,
                                        header.cupsColorSpace, colorspace),
                   convertline |-> ConvertLineFor(header.Duplex, pgno, sx),
                   header |-> hdr, numcolors |-> BytesPerPixel(colorspace),
                   rowsize |-> width * BytesPerPixel(colorspace),
                   bytesPerLine |-> LineBytes(header, width),
                   bi_level |-> bi_level, g |-> g, pixels |-> width]} :
        \* strips that fill the page keep every access inside the page
        \* buffer, but for a half turn made with another page's rowsize
        /\ (crash \/ g # 0) =>
             ~(/\ PixelCount(p.images, p) = width * height * c.numcolors
               /\ rotate # 180 \/ rowsize = c.rowsize)
        /\ header' = hdr
        /\ bytesPerLine' = c.bytesPerLine
        /\ swap_image_x' = sx
        /\ swap_image_y' = sy
        /\ \E bitmap \in {Bitmap(p)},
              wrote \in {[pages |-> raster.pages + 1, hdr |-> <<hdr>>,
                          lines |-> << >>]} :
           \E colordata \in {IF badrot THEN << >>
                             ELSE rotatebitmap(bitmap, rotate, height, width,
                                               rowsize, colorspace, g)},
              outside \in {/\ ~badrot
                           /\ \/ ReadsOutside(bitmap, rotate, height, width,
                                              rowsize, colorspace)
                              \/ WritesOutside(bitmap, rotate, height, width,
                                               colorspace)},
              rowsOutside \in {/\ ~badrot
                               /\ SupportedColorspace(colorspace)
                               /\ RowsOutside(c, bitmap, height)} :
             /\ crash => (outside \/ rowsOutside)
             /\ (~outside /\ ~rowsOutside) => g = 0
             /\ IF badrot
                THEN \* rotatebitmap(), lines 293-296
                     /\ pc' = "exit"
                     /\ status' = "exit1"
                     /\ raster' = wrote
                     /\ page' = Called(p, "exit", "rotate", fold, rotate, bitmap,
                                       << >>, FALSE, FALSE, << >>)
                     /\ UNCHANGED <<convvars, pgi>>
                ELSE IF crash /\ outside
                THEN /\ pc' = "exit"
                     /\ status' = "crash"
                     /\ raster' = wrote
                     /\ page' = Called(p, "crash", "rotate", fold, rotate, bitmap,
                                       << >>, TRUE, FALSE, << >>)
                     /\ UNCHANGED <<convvars, pgi>>
                ELSE IF ~SupportedColorspace(colorspace)
                THEN \* selectConvertFunc(), lines 473-476
                     /\ pc' = "exit"
                     /\ status' = "exit1"
                     /\ raster' = wrote
                     /\ page' = Called(p, "exit", "colorspace", fold, rotate,
                                       bitmap, colordata, outside, FALSE, << >>)
                     /\ UNCHANGED <<convvars, pgi>>
                ELSE /\ rowsize' = c.rowsize
                     /\ numcolors' = c.numcolors
                     /\ convertcspace' = c.convertcspace
                     /\ convertline' = c.convertline
                     /\ IF crash
                        THEN \* a row read or written past the end of the page
                             \* buffer, before any row has reached the stream
                             /\ pc' = "exit"
                             /\ status' = "crash"
                             /\ raster' = wrote
                             /\ page' = Called(p, "crash", "rows", fold, rotate,
                                               bitmap, colordata, outside,
                                               reverse, << >>)
                             /\ pgi' = pgi
                        ELSE \E lines \in {ScanLines(reverse, nplanes, nbands,
                                                     height, c.bytesPerLine)} :
                             /\ raster' = [wrote EXCEPT !.lines = lines]
                             /\ page' = Called(p, "written", "", fold, rotate,
                                               bitmap, colordata, outside, reverse,
                                               EmitRows(c, Samples(colordata),
                                                        lines, 1))
                             /\ pgi' = pgi + 1
                             /\ UNCHANGED <<pc, status>>
  /\ UNCHANGED <<ppd, bi_level, swap_margin_x, swap_margin_y, nplanes, nbands,
                 npages, rot>>

outPage(Pages) ==
  /\ pc = "pages"
  /\ pgi < npages
  /\ \E p \in Pages, g \in Garbage, crash \in BOOLEAN :
       \/ outPageNoBox(p, crash)
       \/ outPageBox(p, g, crash)

(***************************************************************************)
(* The inputs: documents and device profiles.                              *)
(***************************************************************************)
Strip(w, h) == [Width |-> w, Height |-> h]

StripSeqs ==
  { <<Strip(1, 1)>>, <<Strip(2, 1), Strip(2, 1)>>, <<Strip(3, 1), Strip(1, 1)>> }

ResolvedBox == <<<<0, 0, 10, 20>>>>

UnresolvedBoxes == {Absent, <<<<0, 0, 10>>>>, <<<<0, 0, 10, 20, 30>>>>}

Rotates == {Absent, <<90>>, <<180>>, <<270>>}

PageColorSpaces ==
  {Absent, <<"/DeviceGray">>, <<"/DeviceCMYK">>, <<"/DeviceRGB">>, <<"/CalRGB">>}

JobColorSpaces == {Absent, <<"/DeviceGray">>, <<"/DeviceCMYK">>}

Page(box, rotate, cs, images, pat) ==
  [MediaBox |-> box, Rotate |-> rotate, ColorSpace |-> cs, images |-> images,
   pat |-> pat]

Labelled == [base |-> 0, step |-> 1]

\* the pages of the documents of Spec: strips of every supported
\* colorspace under every supported rotation, wide Gray pages, pages with
\* an unsupported rotation or colorspace, and pages without a usable
\* MediaBox
PageInputs ==
  { Page(ResolvedBox, r, cs, im, Labelled) :
      r \in Rotates, cs \in JobColorSpaces, im \in StripSeqs }
  \cup
  { Page(ResolvedBox, r, <<"/DeviceGray">>, <<Strip(10, 1)>>, Labelled) :
      r \in {Absent, <<90>>} }
  \cup
  { Page(ResolvedBox, Absent, <<"/DeviceGray">>, <<Strip(100, 1)>>, Labelled) }
  \cup
  { Page(ResolvedBox, r, <<"/DeviceGray">>, <<Strip(1, 1)>>, Labelled) :
      r \in {<<45>>, <<225>>} }
  \cup
  { Page(ResolvedBox, r, <<"/CalRGB">>, <<Strip(1, 1)>>, Labelled) :
      r \in {Absent, <<180>>} }
  \cup
  { Page(b, r, Absent, <<Strip(1, 1)>>, Labelled) :
      b \in UnresolvedBoxes, r \in {Absent, <<90>>} }

\* one-strip upright pages of every colorspace
PlainPages ==
  { Page(ResolvedBox, Absent, cs, <<Strip(2, 1)>>, Labelled) :
      cs \in PageColorSpaces }

BacksideValues ==
  {"ManualTumble", "MANUALTUMBLE", "Rotated", "rotated", "Flipped", "FLIPPED",
   "Normal", "Sideways", ""}

MarginValues == {"true", "True", "TRUE", "false", "False", "no"}

AllProfiles ==
  { Profile(pr, b, f, m, mode) :
      pr \in BOOLEAN,
      b \in {Absent} \cup { <<v>> : v \in BacksideValues },
      f \in BOOLEAN,
      m \in {Absent} \cup { <<v>> : v \in MarginValues },
      mode \in {"", "bi-level"} }

DeviceColorSpaces == {"K", "W", "SW", "CMY", "CMYK", "RGB", "SRGB", "ADOBERGB"}

\* the devices and profiles of the jobs of Spec
JobSetups ==
  LET plain   == Profile(TRUE, Absent, FALSE, Absent, "")
      rotated == Profile(TRUE, <<"Rotated">>, FALSE, Absent, "")
      flipped == Profile(TRUE, <<"Flipped">>, FALSE, Absent, "")
      none    == Profile(FALSE, Absent, FALSE, Absent, "bi-level")
  IN { <<DeviceHeader(FALSE, FALSE, "RGB", 8, "CHUNKED"), plain>>,
       <<DeviceHeader(FALSE, FALSE, "RGB", 8, "BANDED"), plain>>,
       <<DeviceHeader(TRUE, FALSE, "CMYK", 8, "PLANAR"), flipped>>,
       <<DeviceHeader(FALSE, FALSE, "K", 1, "CHUNKED"), none>>,
       <<DeviceHeader(FALSE, FALSE, "W", 3, "CHUNKED"), plain>>,
       <<DeviceHeader(TRUE, FALSE, "RGB", 8, "CHUNKED"), rotated>>,
       <<DeviceHeader(TRUE, TRUE, "SW", 8, "CHUNKED"), flipped>>,
       <<DeviceHeader(TRUE, FALSE, "CMY", 2, "BANDED"), flipped>> }

(***************************************************************************)
(* The specifications.                                                     *)
(***************************************************************************)
\* the globals as the program starts (lines 42-59), nothing written yet
InitGlobals ==
  /\ status = "running"
  /\ bi_level = 0
  /\ swap_image_x = FALSE
  /\ swap_image_y = FALSE
  /\ swap_margin_x = FALSE
  /\ swap_margin_y = FALSE
  /\ rowsize = 0
  /\ numcolors = 0
  /\ convertcspace = "NULL"
  /\ convertline = "NULL"
  /\ nplanes = 0
  /\ nbands = 0
  /\ bytesPerLine = 0
  /\ pgi = 0
  /\ raster = NoRaster
  /\ page = NoPage

\* a job: main() from parseOpts() on, over a document of npages pages
Init ==
  /\ InitGlobals
  /\ pc = "parseOpts"
  /\ \E setup \in JobSetups : header = setup[1] /\ ppd = setup[2]
  /\ npages \in 1..MaxPages
  /\ rot = NoRot

Next ==
  \/ parseOpts
  \/ mainSetup
  \/ outPage(PageInputs)
  \/ mainFinish

Spec == Init /\ [][Next]_vars

\* duplex jobs over longer documents of plain pages
DuplexPages ==
  { Page(ResolvedBox, r, <<"/DeviceGray">>, <<Strip(2, 1)>>, Labelled) :
      r \in {Absent, <<90>>, <<180>>} }
  \cup {Page(Absent, Absent, Absent, <<Strip(1, 1)>>, Labelled)}

DuplexSetups ==
  { <<DeviceHeader(TRUE, t, "W", 8, "CHUNKED"),
      Profile(TRUE, <<b>>, FALSE, Absent, "")>> :
    t \in BOOLEAN, b \in {"Rotated", "ManualTumble", "Flipped", "Normal"} }

InitDuplex ==
  /\ InitGlobals
  /\ pc = "parseOpts"
  /\ \E setup \in DuplexSetups : header = setup[1] /\ ppd = setup[2]
  /\ npages \in 1..MaxDuplexPages
  /\ rot = NoRot

NextDuplex ==
  \/ parseOpts
  \/ mainSetup
  \/ outPage(DuplexPages)
  \/ mainFinish

SpecDuplex == InitDuplex /\ [][NextDuplex]_vars

\* parseOpts() over every profile
InitOpts ==
  /\ InitGlobals
  /\ pc = "parseOpts"
  /\ \E d \in BOOLEAN, t \in BOOLEAN :
       header = DeviceHeader(d, t, "RGB", 8, "CHUNKED")
  /\ ppd \in AllProfiles
  /\ npages = 0
  /\ rot = NoRot

NextOpts == parseOpts

SpecOpts == InitOpts /\ [][NextOpts]_vars

\* rotatebitmap() alone
InitRotate ==
  /\ InitGlobals
  /\ pc = "rotate"
  /\ header = DeviceHeader(FALSE, FALSE, "RGB", 8, "CHUNKED")
  /\ ppd = Profile(FALSE, Absent, FALSE, Absent, "")
  /\ npages = 0
  /\ rot \in RotInputs

NextRotate ==
  \/ RotateFirst
  \/ RotateSecond

SpecRotate == InitRotate /\ [][NextRotate]_vars

\* jobs on every device colorspace, over upright one-strip pages
InitSelect ==
  /\ InitGlobals
  /\ pc = "parseOpts"
  /\ \E cs \in DeviceColorSpaces, bpc \in {1, 8} :
       header = DeviceHeader(FALSE, FALSE, cs, bpc, "CHUNKED")
  /\ ppd = Profile(TRUE, Absent, FALSE, Absent, "")
  /\ npages \in 1..MaxPages
  /\ rot = NoRot

NextSelect ==
  \/ parseOpts
  \/ mainSetup
  \/ outPage(PlainPages)
  \/ mainFinish

SpecSelect == InitSelect /\ [][NextSelect]_vars

\* one-strip upright pages of every supported colorspace, three and nine
\* pixels wide
LinePages ==
  { Page(ResolvedBox, Absent, cs, <<Strip(w, h)>>, Labelled) :
      cs \in {Absent, <<"/DeviceGray">>, <<"/DeviceCMYK">>},
      w \in {MaxDim, 9}, h \in {1, 2} }

\* single-channel devices at 1 and 8 bits and multi-channel devices on the
\* three paths of the line assemblers, plain and duplex; the duplex jobs
\* are Flipped with tumble, which asks for the image-x swap alone
LineSetups ==
  LET flipped(mode) == Profile(TRUE, <<"Flipped">>, FALSE, Absent, mode)
  IN { <<DeviceHeader(d, TRUE, cs, bpc, "CHUNKED"), flipped(mode)>> :
         d \in BOOLEAN, cs \in {"K", "W", "SW"}, bpc \in {1, 8},
         mode \in {"", "bi-level"} }
     \cup
     { <<DeviceHeader(d, TRUE, "CMYK", 8, "CHUNKED"), flipped("")>> : d \in BOOLEAN }
     \cup
     { <<DeviceHeader(TRUE, TRUE, "RGB", 8, "CHUNKED"), flipped("")>>,
       <<DeviceHeader(TRUE, TRUE, "RGB", 8, "PLANAR"), flipped("")>>,
       <<DeviceHeader(TRUE, TRUE, "CMY", 2, "BANDED"), flipped("")>>,
       <<DeviceHeader(TRUE, TRUE, "K", 4, "CHUNKED"), flipped("")>> }

InitLines ==
  /\ InitGlobals
  /\ pc = "parseOpts"
  /\ \E setup \in LineSetups : header = setup[1] /\ ppd = setup[2]
  /\ npages \in 1..MaxPages
  /\ rot = NoRot

NextLines ==
  \/ parseOpts
  \/ mainSetup
  \/ outPage(LinePages)
  \/ mainFinish

SpecLines == InitLines /\ [][NextLines]_vars

(***************************************************************************)
(* The claims.                                                             *)
(***************************************************************************)
Flags(ix, iy, mx, my) ==
  [image_x |-> ix, image_y |-> iy, margin_x |-> mx, margin_y |-> my]

CurrentSwap == Flags(swap_image_x, swap_image_y, swap_margin_x, swap_margin_y)

RecognisedBacksides == {"normal", "manualtumble", "rotated", "flipped"}

\* the flipped-margin attribute as the policy table reads it
MarginAttr(p) ==
  IF ~Present(p.APDuplexRequiresFlippedMargin) THEN "unspecified"
  ELSE ToLower(ValueOf(p.APDuplexRequiresFlippedMargin))

\* the first-match-wins table of the duplex geometry policy
PolicyTable(b, t, fm) ==
  IF (b = "manualtumble" /\ t) \/ (b = "rotated" /\ ~t)
  THEN Flags(TRUE, TRUE, TRUE, fm # "true")
  ELSE IF b = "flipped" /\ t
  THEN Flags(TRUE, FALSE, TRUE, IF fm = "false" THEN FALSE ELSE TRUE)
  ELSE IF b = "flipped" /\ ~t
  THEN Flags(FALSE, TRUE, FALSE, IF fm = "false" THEN TRUE ELSE FALSE)
  ELSE Flags(FALSE, FALSE, FALSE, FALSE)

\* parseOpts() has run on a duplex job with a profile
DuplexParsed == pc = "main" /\ ppd.present /\ header.Duplex

\* C4: for every backside in {Normal, ManualTumble, Rotated, Flipped},
\* tumble and flipped-margin attribute in {unspecified, true, false} of a
\* duplex job, the four swap flags computed at job start equal the
\* first-match-wins table.
C4_SwapTable ==
  (/\ DuplexParsed
   /\ Present(ppd.cupsBackSide)
   /\ ToLower(ValueOf(ppd.cupsBackSide)) \in RecognisedBacksides
   /\ MarginAttr(ppd) \in {"unspecified", "true", "false"})
  => CurrentSwap = PolicyTable(ToLower(ValueOf(ppd.cupsBackSide)),
                               header.Tumble, MarginAttr(ppd))

\* C4 witness: Flipped with tumble and flipped-margin false has been parsed
\* into (T, F, T, F).
C4_Witness ==
  /\ DuplexParsed
  /\ ppd.cupsBackSide = <<"Flipped">>
  /\ header.Tumble
  /\ MarginAttr(ppd) = "false"
  /\ CurrentSwap = Flags(TRUE, FALSE, TRUE, FALSE)

BacksideUnrecognised ==
  /\ Present(ppd.cupsBackSide)
  /\ ToLower(ValueOf(ppd.cupsBackSide)) \notin RecognisedBacksides

\* C5 as stated: when the backside attribute is absent or not one of the
\* recognised values, the computed swap state is the no-swap state and no
\* error is raised, whatever the other profile attributes are.
C5_Original ==
  (pc = "main" /\ (~Present(ppd.cupsBackSide) \/ BacksideUnrecognised))
  => (CurrentSwap = NoSwap /\ status = "running")

\* C5 amended: when the backside attribute is not one of the recognised
\* values, or is absent while the profile's flip-duplex flag is not set, the
\* computed swap state is the no-swap state and no error is raised; an
\* absent backside attribute with the flip-duplex flag set is read as
\* backside = Rotated.
C5_Amended ==
  /\ (pc = "main" /\ (BacksideUnrecognised
                      \/ (~Present(ppd.cupsBackSide) /\ ~ppd.flip_duplex)))
     => (CurrentSwap = NoSwap /\ status = "running")
  /\ (DuplexParsed /\ ~Present(ppd.cupsBackSide) /\ ppd.flip_duplex
      /\ MarginAttr(ppd) \in {"unspecified", "true", "false"})
     => (CurrentSwap = PolicyTable("rotated", header.Tumble, MarginAttr(ppd))
         /\ status = "running")

\* C5 witness: a duplex job without backside attribute and without the
\* flip-duplex flag has been parsed, tumble off and flipped-margin given.
C5_Witness ==
  /\ DuplexParsed
  /\ ~Present(ppd.cupsBackSide)
  /\ ~ppd.flip_duplex
  /\ ~header.Tumble
  /\ MarginAttr(ppd) = "false"
  /\ CurrentSwap = NoSwap

\* C7: for every buffer x of width x height pixels with 1, 3 or 4 bytes per
\* pixel and row stride width x bytes-per-pixel, rotate(x, 0) is x itself,
\* rotate(rotate(x, 180), 180) = x and rotate(rotate(x, 90), 270) = x, the
\* second call taking the first call's output dimensions, byte for byte.
C7_RotateInverses ==
  /\ (rot.stage >= 2 /\ rot.first = 0) => rot.y = rot.x
  /\ (rot.stage = 3 /\ rot.first = 180 /\ rot.second = 180) => rot.z = rot.x
  /\ (rot.stage = 3 /\ rot.first = 90 /\ rot.second = 270) => rot.z = rot.x

\* C7 witness: a 3 x 2 RGB buffer has been turned by 90 and then by 270
\* degrees, the first turn having changed it.
C7_Witness ==
  /\ rot.stage = 3
  /\ rot.first = 90
  /\ rot.second = 270
  /\ rot.width = 3
  /\ rot.height = 2
  /\ rot.colorspace = "/DeviceRGB"
  /\ rot.y # rot.x
  /\ rot.z = rot.x

\* the last call of outPage() wrote a whole page
PageWritten == page.outcome = "written"

\* the last call of outPage() got as far as writing the page's header
PageEmitted == page.outcome \in {"written", "exit", "crash"} /\ page.reason # "mediabox"

LastHeader == raster.hdr[1]

\* planes and bands of the stream, from the header written
HeaderPlanes(h) == IF h.cupsColorOrder = "PLANAR" THEN h.cupsNumColors ELSE 1

HeaderBands(h) == IF h.cupsColorOrder = "BANDED" THEN h.cupsNumColors ELSE 1

\* the job is between two pages or has ended normally
BetweenPages == pc \in {"pages", "done"} /\ raster.pages > 0

\* C2 as stated: each emitted page is one header followed by exactly
\* cupsHeight x nplanes x nbands scanline writes, each of the bytes-per-line
\* length recorded in that page's header, all written before the next
\* page's header.
C2_Original ==
  BetweenPages =>
    /\ Len(raster.lines) =
         LastHeader.cupsHeight * HeaderPlanes(LastHeader) * HeaderBands(LastHeader)
    /\ \A n \in 1..Len(raster.lines) :
         raster.lines[n].len = LastHeader.cupsBytesPerLine

\* C2 amended: each emitted page is one header followed by exactly
\* cupsHeight x nplanes x nbands scanline writes, all written before the
\* next page's header, each of ceil(bitsPerPixel x width / 8) bytes: the
\* bytes-per-line recorded in the page's header, except in banded order,
\* where the header records that length times the number of colors (the
\* bands of a row together make up one header line).
C2_Amended ==
  BetweenPages =>
    /\ Len(raster.lines) =
         LastHeader.cupsHeight * HeaderPlanes(LastHeader) * HeaderBands(LastHeader)
    /\ \A n \in 1..Len(raster.lines) :
         /\ raster.lines[n].len * HeaderBands(LastHeader) = LastHeader.cupsBytesPerLine
         /\ raster.lines[n].len * 8 >= LastHeader.cupsBitsPerPixel * LastHeader.cupsWidth
         /\ (raster.lines[n].len - 1) * 8 < LastHeader.cupsBitsPerPixel * LastHeader.cupsWidth

\* C2 witness: a two-row page has been written in banded order with three
\* colors: six writes, each a third of the header's bytes-per-line.
C2_Witness ==
  /\ BetweenPages
  /\ PageWritten
  /\ LastHeader.cupsColorOrder = "BANDED"
  /\ LastHeader.cupsNumColors = 3
  /\ LastHeader.cupsHeight = 2
  /\ Len(raster.lines) = 6
  /\ raster.lines[6].len * 3 = LastHeader.cupsBytesPerLine

\* the swap flags and the conversion state
JobState == <<header, swapvars, convvars, nplanes, nbands, bytesPerLine>>

\* C3: a page whose MediaBox cannot be resolved is skipped: no header and no
\* scanline is written for it, the job-wide header, swap flags and
\* conversion state are left unchanged, the job does not abort and goes on
\* with the next page.
C3_SkipUnresolved ==
  [][(pc = "pages" /\ page'.pgno = pgi /\ mediaboxlookup(page'.input) # "true")
     => (/\ raster' = raster
         /\ JobState' = JobState
         /\ status' = "running"
         /\ pc' = "pages"
         /\ pgi' = pgi + 1)]_vars

\* C6: a page whose rotation (after the duplex fold-in) is not 0, 90, 180 or
\* 270 ends the job with a non-zero status, and neither its header nor any
\* of its scanlines has been written when the abort happens.
C6_NoPartialOutput ==
  [][(pc = "pages" /\ page'.pgno = pgi /\ mediaboxlookup(page'.input) = "true"
      /\ ~SupportedRotation(page'.rotate))
     => (status' = "exit1" /\ raster' = raster)]_vars

\* pixel k of a buffer of n pixels is pixel n-1-k of `from', bytes in place
TurnedAround(to, from, n, bpp) ==
  /\ Len(from) = n * bpp
  /\ Len(to) = n * bpp
  /\ \A k \in 0..(n - 1), j \in 0..(bpp - 1) :
       to[k * bpp + j + 1] = from[(n - 1 - k) * bpp + j + 1]

\* C8: whenever outPage() turns a page by 180 degrees, pixel k of the
\* rotated buffer is pixel N-1-k of the assembled buffer (N = width x
\* height), bytes within a pixel in place, for Gray, RGB and CMYK pages and
\* for every page of the job, the first one included, and no byte outside
\* the page buffer is read.
C8_HalfTurn ==
  (PageWritten /\ page.rotate = 180)
  => /\ ~page.outside
     /\ TurnedAround(page.colordata, page.bitmap,
                     LastHeader.cupsWidth * LastHeader.cupsHeight,
                     BytesPerPixel(page.colorspace))

\* the least n with n * b >= a
CeilDiv(a, b) == CHOOSE n \in 0..a : n * b >= a /\ (n = 0 \/ (n - 1) * b < a)

\* the page's width after the 90/270 exchange, from its strips
WidthAfterExchange(p) ==
  IF Present(p.Rotate) /\ ValueOf(p.Rotate) \in {90, 270}
  THEN SumHeights(p.images) ELSE MaxWidth(p.images)

\* C9: for every emitted page the header's bytes-per-line is
\* ceil(bitsPerPixel x width / 8), times the number of color components
\* exactly when the color order is banded, width being the page width after
\* the 90/270 exchange.
C9_BytesPerLine ==
  PageEmitted =>
    /\ LastHeader.cupsWidth = WidthAfterExchange(page.input)
    /\ LastHeader.cupsBytesPerLine =
         CeilDiv(LastHeader.cupsBitsPerPixel * LastHeader.cupsWidth, 8)
           * (IF LastHeader.cupsColorOrder = "BANDED"
              THEN LastHeader.cupsNumColors ELSE 1)

\* C9 witness: a page 10 pixels wide has been emitted at one bit per pixel
\* with 2 bytes per line.
C9_Witness ==
  /\ PageEmitted
  /\ LastHeader.cupsBitsPerPixel = 1
  /\ LastHeader.cupsWidth = 10
  /\ LastHeader.cupsBytesPerLine = 2

\* the rotation the document gives a page
DocumentRotation(p) == IF Present(p.Rotate) THEN ValueOf(p.Rotate) ELSE 0

\* the swap state computed at job start asks for both image swaps
BothImageSwapsAtStart ==
  /\ pc # "parseOpts"
  /\ header.Duplex
  /\ ComputedSwap(ppd, header).image_x
  /\ ComputedSwap(ppd, header).image_y

\* C1: in a duplex job whose swap state computed at job start has both
\* image swaps set, every emitted odd-indexed page is processed with
\* rotation (document rotation + 180) mod 360 and with both image swap
\* flags cleared when rotation, conversion-function selection and row
\* emission happen; even-indexed pages keep the document rotation.
C1_EveryBackside ==
  (BothImageSwapsAtStart /\ PageWritten)
  => IF page.pgno % 2 = 1
     THEN /\ page.rotate = (DocumentRotation(page.input) + 180) % 360
          /\ ~swap_image_x
          /\ ~swap_image_y
          /\ convertline = "convertLine"
          /\ ~page.reverse
     ELSE page.rotate = DocumentRotation(page.input)

\* the conversion the colorspace conversion table lists for a (source,
\* device target) pair, the identity for every other pair
ListedConversion(source, target) ==
  LET ink == CASE target = "K" -> "Black"
               [] target \in {"W", "SW"} -> "White"
               [] target = "CMY" -> "CMY"
               [] target = "CMYK" -> "CMYK"
               [] target \in {"RGB", "SRGB", "ADOBERGB"} -> "RGB"
      listed == [RGB  |-> [CMYK |-> "RGBtoCMYKLine", CMY |-> "RGBtoCMYLine",
                           White |-> "RGBtoWhiteLine", Black |-> "RGBtoBlackLine",
                           RGB |-> "convertcspaceNoop"],
                 CMYK |-> [RGB |-> "CMYKtoRGBLine", CMY |-> "CMYKtoCMYLine",
                           White |-> "CMYKtoWhiteLine", Black |-> "CMYKtoBlackLine",
                           CMYK |-> "convertcspaceNoop"],
                 Gray |-> [RGB |-> "GraytoRGBLine", CMYK |-> "GraytoCMYKLine",
                           CMY |-> "GraytoCMYLine", Black |-> "GraytoBlackLine",
                           White |-> "convertcspaceNoop"]]
      src == CASE source = "/DeviceRGB" -> "RGB"
               [] source = "/DeviceCMYK" -> "CMYK"
               [] source = "/DeviceGray" -> "Gray"
  IN listed[src][ink]

\* C10: conversion-function selection is total over the eight device
\* targets and the three source colorspaces: a non-null function is
\* selected for every pair, the listed conversion where the table defines
\* one and the identity otherwise, whatever was selected for earlier pages.
C10_DispatchTotal ==
  PageWritten =>
    /\ convertcspace # "NULL"
    /\ convertcspace = ListedConversion(page.colorspace, header.cupsColorSpace)

\* C10 witness: on a White device a Gray page, not the job's first, has
\* selected the identity.
C10_Witness ==
  /\ PageWritten
  /\ page.pgno >= 1
  /\ header.cupsColorSpace = "W"
  /\ page.colorspace = "/DeviceGray"
  /\ convertcspace = "convertcspaceNoop"

RECURSIVE TotalOf(_)
TotalOf(seq) == IF seq = << >> THEN 0 ELSE Head(seq) + TotalOf(Tail(seq))

\* the greatest number of a sequence of naturals, 0 for the empty one
GreatestOf(seq) ==
  IF seq = << >> THEN 0
  ELSE CHOOSE m \in { seq[k] : k \in 1..Len(seq) } :
         \A k \in 1..Len(seq) : m >= seq[k]

StripWidths(p) == [k \in 1..Len(p.images) |-> p.images[k].Width]

StripHeights(p) == [k \in 1..Len(p.images) |-> p.images[k].Height]

\* the data sizes of the page's strips, in extraction order
StripSizes(p) ==
  [k \in 1..Len(p.images) |->
     p.images[k].Width * p.images[k].Height
       * (IF page.colorspace \in Colorspaces
          THEN BytesPerPixel(page.colorspace) ELSE 3)]

\* C14: for every emitted page, before the rotation swap the page width is
\* the maximum width over that page's own strips and the page height the sum
\* of that page's strip heights (nothing carries over from earlier pages),
\* the assembled buffer is as long as the strips' data sizes summed in
\* extraction order, and width and height are exchanged exactly when the
\* document rotation is 90 or 270.
C14_PageGeometry ==
  PageEmitted =>
    LET p == page.input
        w == GreatestOf(StripWidths(p))
        h == TotalOf(StripHeights(p))
    IN /\ Len(page.bitmap) = TotalOf(StripSizes(p))
       /\ IF DocumentRotation(p) \in {90, 270}
          THEN LastHeader.cupsWidth = h /\ LastHeader.cupsHeight = w
          ELSE LastHeader.cupsWidth = w /\ LastHeader.cupsHeight = h

\* C14 witness: the second page of a job, made of a 3 x 1 and a 1 x 1 strip
\* under /Rotate 90, has been emitted 2 wide and 3 high over a 16-byte
\* buffer of CMYK data.
C14_Witness ==
  /\ PageEmitted
  /\ page.pgno = 1
  /\ raster.pages = 2
  /\ page.input.images = <<Strip(3, 1), Strip(1, 1)>>
  /\ DocumentRotation(page.input) = 90
  /\ page.colorspace = "/DeviceCMYK"
  /\ Len(page.bitmap) = 16
  /\ LastHeader.cupsWidth = 2
  /\ LastHeader.cupsHeight = 3

\* the rows of this page go out last row first
Backwards == header.Duplex /\ page.pgno % 2 = 1 /\ swap_image_y

\* the row a plane pass starts with, and the one it ends with
StartRow == IF Backwards THEN LastHeader.cupsHeight - 1 ELSE 0

EndRow == IF Backwards THEN 0 ELSE LastHeader.cupsHeight - 1

\* write b follows write a in the order of the row loops
FollowsInOrder(a, b) ==
  IF a.band < HeaderBands(LastHeader) - 1
  THEN b.band = a.band + 1 /\ b.row = a.row /\ b.plane = a.plane
  ELSE IF a.row # EndRow
  THEN /\ b.band = 0
       /\ b.row = (IF Backwards THEN a.row - 1 ELSE a.row + 1)
       /\ b.plane = a.plane
  ELSE b.band = 0 /\ b.row = StartRow /\ b.plane = a.plane + 1

\* C13: within each plane pass the rows of a page are emitted from last to
\* first exactly when the job is duplex, the page index is odd and the
\* image-y swap is active after the fold-in step, and from first to last in
\* every other case; the bands of one row are emitted consecutively in
\* increasing band index, and the channel index handed to the line
\* assembler is plane + band.
C13_RowOrder ==
  (PageWritten /\ Len(raster.lines) > 0) =>
    LET L == raster.lines
    IN /\ L[1].plane = 0 /\ L[1].row = StartRow /\ L[1].band = 0
       /\ L[Len(L)].plane = HeaderPlanes(LastHeader) - 1
       /\ L[Len(L)].row = EndRow
       /\ L[Len(L)].band = HeaderBands(LastHeader) - 1
       /\ \A n \in 1..Len(L) : L[n].chan = L[n].plane + L[n].band
       /\ \A n \in 1..(Len(L) - 1) : FollowsInOrder(L[n], L[n + 1])

\* C13 witness: the backside of a duplex job with the image-y swap alone,
\* two rows high in planar order, has been written: the second plane pass
\* starts over with the last row.
C13_Witness ==
  /\ PageWritten
  /\ Backwards
  /\ ~swap_image_x
  /\ LastHeader.cupsColorOrder = "PLANAR"
  /\ LastHeader.cupsHeight = 2
  /\ Len(raster.lines) = 8
  /\ raster.lines[2].row = 0
  /\ raster.lines[3].row = 1
  /\ raster.lines[3].plane = 1
  /\ raster.lines[3].chan = 1

\* the bytes of the pixel at column i of row r of the page, as the rotated
\* page buffer holds them
SourcePixel(r, i) ==
  LET bpp == BytesPerPixel(page.colorspace)
  IN [j \in 1..bpp |->
        SourceByte(page.colordata[(r * LastHeader.cupsWidth + i) * bpp + j])]

\* the pixel at column i of row r after the conversion the table lists for
\* the page's colorspace and the device's
ConvertedPixel(r, i) ==
  LET fn == ListedConversion(page.colorspace, header.cupsColorSpace)
      px == SourcePixel(r, i)
  IN IF fn = "convertcspaceNoop" THEN px
     ELSE IF fn = "CMYKtoCMYLine"
     THEN cupsImageConvert("cupsImageRGBToCMY",
                           cupsImageConvert("cupsImageCMYKToRGB", px, 1, 4, 3),
                           1, 3, 3)
     ELSE cupsImageConvert(LibraryCall(fn).name, px, 1,
                           LibraryCall(fn).nin, LibraryCall(fn).nout)

\* the row a scanline write is to hold: output column x made from source
\* column x, or from column width-1-x when mirrored
RowOf(line, mirrored) ==
  LET h     == LastHeader
      nc    == h.cupsNumColors
      bits  == h.cupsBitsPerColor
      r     == line.row
      at(x) == IF mirrored THEN h.cupsWidth - 1 - x ELSE x
      value(x, ch) == ConvertedPixel(r, at(x))[ch + 1]
      cell(x, ch)  == Sample("convertbits", bits, x, r, <<value(x, ch)>>)
  IN IF bits = 1 /\ nc = 1
     THEN PackCells([n \in 1..h.cupsWidth |->
                       Sample("oneBitLine", bi_level, at(n - 1), r,
                              <<value(n - 1, 0)>>)], 1)
     ELSE IF bits = 8 /\ h.cupsColorOrder = "CHUNKED"
     THEN [n \in 1..(h.cupsWidth * nc) |-> value((n - 1) \div nc, (n - 1) % nc)]
     ELSE IF h.cupsColorOrder = "CHUNKED"
     THEN PackCells([n \in 1..(h.cupsWidth * nc) |->
                       cell((n - 1) \div nc, (n - 1) % nc)], bits)
     ELSE PackCells([n \in 1..h.cupsWidth |-> cell(n - 1, line.chan)], bits)

\* the page is assembled right to left
Mirrored == header.Duplex /\ page.pgno % 2 = 1 /\ swap_image_x

\* the thresholding pass has had a part in making this byte
RECURSIVE Thresholded(_)
Thresholded(s) ==
  \/ s.op = "oneBitLine"
  \/ \E k \in 1..Len(s.arg) : Thresholded(s.arg[k])

InkTarget == header.cupsColorSpace \in {"K", "W", "SW"}

\* C11: for every source colorspace in {Gray, RGB, CMYK}, when the device
\* target is a single-channel ink plane (K, W or SW) and bits per color is
\* 1, the row is first converted at full precision to one byte per pixel
\* and then passed through the one-bit thresholding pass with the job's
\* bi-level flag, so that the emitted row holds one bit per pixel; when bits
\* per color is not 1 the thresholding pass is never applied.
C11_TwoPhase ==
  (PageWritten /\ InkTarget) =>
    \A n \in 1..Len(page.emitted) :
      IF header.cupsBitsPerColor = 1
      THEN page.emitted[n] = RowOf(raster.lines[n], Mirrored)
      ELSE \A k \in 1..Len(page.emitted[n]) : ~Thresholded(page.emitted[n][k])

\* C12: the mirrored line assembler is selected for a page exactly when the
\* job is duplex, the page index is odd and swap-image-x is still set after
\* the fold-in step; for every such page, pixel i of each emitted row is
\* the colorspace-converted source pixel width-1-i of the same row and the
\* rows are emitted in forward order, while even-indexed pages use the
\* non-mirrored assembler; this holds in the 1-bit, the 8-bit chunked and
\* the general packing path.
C12_MirroredRows ==
  PageWritten =>
    /\ (convertline = "convertReverseLine") = Mirrored
    /\ page.pgno % 2 = 0 => convertline = "convertLine"
    /\ Mirrored =>
         /\ ~page.reverse
         /\ \A n \in 1..Len(page.emitted) :
              page.emitted[n] = RowOf(raster.lines[n], TRUE)
=============================================================================
